---- MODULE Spec2Model ----
(***************************************************************************)
(* HalfCheetahDirEnv (src/garage/envs/half_cheetah_dir_env.py) and the RL2 *)
(* benchmark harness (tests/benchmarks/garage/tf/algos/                    *)
(* test_benchmark_rl2_new2.py) as state machines.                          *)
(*                                                                         *)
(* Numbers.  Every Python number r (int or float) is the integer r * Q, so *)
(* that 1 and 1.0 are the same value, as they are under Python's ==.  The  *)
(* inputs are drawn from a grid on which every product and quotient the    *)
(* code forms is exact.                                                    *)
(***************************************************************************)
EXTENDS Integers, Sequences, FiniteSets, TLC

VARIABLES
    env,        \* the HalfCheetahDirEnv instance: _goal_dir, sim, np_random
    op,         \* the last call made on env
    arg,        \* its argument
    pre,        \* env as it was when that call began
    ret,        \* what the call returned
    hist,       \* set_task bookkeeping of the calls so far
    envF, envB, \* two instances, direction 1.0 and -1.0, driven in lockstep
    retF, retB, \* what their last step returned
    actFB,      \* the action of that step
    pc,         \* position of the benchmark harness
    outputs,    \* dowel logger's registered outputs
    trial,      \* index of the running trial
    n_trials,   \* hyper_parameters['n_trials']
    seeds,      \* the seeds drawn for the trials
    csvs        \* garage_tf_csvs

envVars == <<env, op, arg, pre, ret, hist>>
pairVars == <<envF, envB, retF, retB, actFB>>
harnessVars == <<pc, outputs, trial, n_trials, seeds, csvs>>
vars == <<envVars, pairVars, harnessVars>>

----------------------------------------------------------------------------
(* Bounds of the model *)

MaxPos == 10        \* step is explored while |qpos[0]| <= MaxPos (0.01 units)
MaxDraws == 2       \* draws taken from np_random over a run
MaxTasks == 2       \* largest num_tasks passed to sample_tasks
MaxActive == 1      \* leading action components that may be nonzero
MaxTrials == 2      \* largest hyper_parameters['n_trials']
MaxSeed == 2        \* seeds are drawn from 0..MaxSeed
MaxStart == 1       \* spread of the state two mirrored instances start from

----------------------------------------------------------------------------
(* Numbers *)

Q == 10 * 10
Num(n) == n * Q
FMul(a, b) == (a * b) \div Q
FDiv(a, b) == (a * Q) \div b
Abs(a) == IF a < 0 THEN -a ELSE a

RECURSIVE SumSeq(_)
SumSeq(s) == IF s = << >> THEN 0 ELSE Head(s) + SumSeq(Tail(s))

\* np.square(action)
Square(action) == [i \in DOMAIN action |-> FMul(action[i], action[i])]

----------------------------------------------------------------------------
(* Tasks and actions *)

None == << >>
DefaultTask == [direction |-> Num(1)]
TaskDirs == {Num(-1), Num(0), Num(1)}
Tasks == {[direction |-> d] : d \in TaskDirs}
TaskArgs == {None} \cup Tasks
ValidDirs == {Num(-1), Num(1)}
ValidTask(task) == task = None \/ task.direction \in ValidDirs

ActDim == 6
ActVals == {Num(-1), Num(0), Num(1)}
Actions ==
    {a \in [1..ActDim -> ActVals] : \A i \in 1..ActDim : i > MaxActive => a[i] = 0}
ZeroAction == [i \in 1..ActDim |-> 0]
UnitAction == [i \in 1..ActDim |-> IF i = 1 THEN Num(1) ELSE 0]

----------------------------------------------------------------------------
(* The simulator the base class owns *)

frame_skip == 5
timestep == 1
dt == timestep * frame_skip
MaxVel == Num(2)
Clamp(v) == IF v > MaxVel THEN MaxVel ELSE IF v < -MaxVel THEN -MaxVel ELSE v

InitSim == [qpos |-> 0, qvel |-> 0]

mj_step(sim, ctrl) ==
    LET v == Clamp(sim.qvel + SumSeq(ctrl))
    IN  [qpos |-> sim.qpos + FMul(v, timestep), qvel |-> v]

RECURSIVE do_simulation(_, _, _)
do_simulation(sim, ctrl, n_frames) ==
    IF n_frames = 0 THEN sim
    ELSE do_simulation(mj_step(sim, ctrl), ctrl, n_frames - 1)

get_obs(sim) == <<sim.qvel>>

\* states a reset can leave the simulator in
StartSims ==
    {[qpos |-> x, qvel |-> Num(v)] : x \in -MaxStart..MaxStart, v \in -MaxStart..MaxStart}

----------------------------------------------------------------------------
(* HalfCheetahDirEnv *)

\* task or {'direction': 1.}
Truthy(task) == DOMAIN task # {}

init_zero_default(task) ==
    LET t == IF Truthy(task) THEN task ELSE [direction |-> Num(0)]
    IN  [_goal_dir |-> t.direction, sim |-> InitSim, np_random |-> 0]

init(task) ==
    LET t == IF Truthy(task) THEN task ELSE DefaultTask
    IN  [_goal_dir |-> t.direction, sim |-> InitSim, np_random |-> 0]

forward_vel_undivided(xposbefore, xposafter) == xposafter - xposbefore

forward_vel(xposbefore, xposafter) == FDiv(xposafter - xposbefore, dt)

forward_reward_unsigned(goal_dir, fwd_vel) == fwd_vel

forward_reward(goal_dir, fwd_vel) == FMul(goal_dir, fwd_vel)

ctrl_cost_unsquared(action) ==
    FMul(FMul(Num(1) \div 2, Num(1) \div 10), SumSeq(action))

ctrl_cost(action) ==
    FMul(FMul(Num(1) \div 2, Num(1) \div 10), SumSeq(Square(action)))

done_true == TRUE

done == FALSE

step(e, action) ==
    LET xposbefore == e.sim.qpos
        sim2 == do_simulation(e.sim, action, frame_skip)
        xposafter == sim2.qpos
        fwd_vel == forward_vel(xposbefore, xposafter)
        fwd_reward == forward_reward(e._goal_dir, fwd_vel)
        cost == ctrl_cost(action)
        observation == get_obs(sim2)
        reward == fwd_reward - cost
        infos == [reward_forward |-> fwd_reward,
                  reward_ctrl |-> -cost,
                  task_dir |-> e._goal_dir]
    IN  [env |-> [e EXCEPT !.sim = sim2],
         ret |-> [observation |-> observation, reward |-> reward,
                  done |-> done, infos |-> infos]]

\* draws[i] is the i-th value np_random.binomial(1, p=0.5) produced: 0 or 1
sample_tasks_raw(e, num_tasks, draws) ==
    LET directions == [i \in 1..num_tasks |-> Num(draws[i])]
        tasks == [i \in 1..num_tasks |-> [direction |-> directions[i]]]
    IN  [env |-> [e EXCEPT !.np_random = @ + num_tasks],
         ret |-> tasks]

sample_tasks_apply(e, num_tasks, draws) ==
    LET directions == [i \in 1..num_tasks |-> FMul(Num(2), Num(draws[i])) - Num(1)]
        tasks == [i \in 1..num_tasks |-> [direction |-> directions[i]]]
    IN  [env |-> [e EXCEPT !.np_random = @ + num_tasks,
                           !._goal_dir = IF num_tasks = 0 THEN @
                                         ELSE directions[num_tasks]],
         ret |-> tasks]

sample_tasks(e, num_tasks, draws) ==
    LET directions == [i \in 1..num_tasks |-> FMul(Num(2), Num(draws[i])) - Num(1)]
        tasks == [i \in 1..num_tasks |-> [direction |-> directions[i]]]
    IN  [env |-> [e EXCEPT !.np_random = @ + num_tasks],
         ret |-> tasks]

set_task_reset(e, task) ==
    [e EXCEPT !._goal_dir = task.direction, !.sim = InitSim]

set_task_relative(e, task) ==
    [e EXCEPT !._goal_dir = FMul(@, task.direction)]

set_task(e, task) == [e EXCEPT !._goal_dir = task.direction]

----------------------------------------------------------------------------
(* One environment instance and its callers *)

NoHist == [sets |-> 0, steps |-> 2, task |-> None, inputs_ok |-> TRUE]

EnvIdle ==
    /\ env = init(None)
    /\ op = "init"
    /\ arg = None
    /\ pre = init(None)
    /\ ret = None
    /\ hist = NoHist

EnvInit ==
    \E task \in TaskArgs :
        /\ env = init(task)
        /\ op = "init"
        /\ arg = task
        /\ pre = init(task)
        /\ ret = None
        /\ hist = [NoHist EXCEPT !.inputs_ok = ValidTask(task)]

Step ==
    /\ Abs(env.sim.qpos) <= MaxPos
    /\ \E action \in Actions :
        LET r == step(env, action)
        IN  /\ env' = r.env
            /\ ret' = r.ret
            /\ op' = "step"
            /\ arg' = action
    /\ pre' = env
    /\ hist' = [hist EXCEPT !.sets = 0,
                            !.steps = IF @ < 2 THEN @ + 1 ELSE 2]
    /\ UNCHANGED <<pairVars, harnessVars>>

SampleTasks ==
    /\ \E num_tasks \in 0..MaxTasks :
        /\ env.np_random + num_tasks <= MaxDraws
        /\ \E draws \in [1..num_tasks -> {0, 1}] :
            LET r == sample_tasks(env, num_tasks, draws)
            IN  /\ env' = r.env
                /\ ret' = r.ret
        /\ op' = "sample_tasks"
        /\ arg' = num_tasks
    /\ pre' = env
    /\ UNCHANGED hist
    /\ UNCHANGED <<pairVars, harnessVars>>

SetTask ==
    /\ \E task \in Tasks :
        /\ env' = set_task(env, task)
        /\ ret' = None
        /\ op' = "set_task"
        /\ arg' = task
        /\ hist' = [sets |-> IF hist.sets < 2 THEN hist.sets + 1 ELSE 2,
                    steps |-> 0,
                    task |-> task,
                    inputs_ok |-> hist.inputs_ok /\ ValidTask(task)]
    /\ pre' = env
    /\ UNCHANGED <<pairVars, harnessVars>>

----------------------------------------------------------------------------
(* Two instances driven in lockstep *)

PairIdle ==
    /\ envF = init([direction |-> Num(1)])
    /\ envB = init([direction |-> Num(-1)])
    /\ retF = None
    /\ retB = None
    /\ actFB = None

PairInit ==
    /\ \E s \in StartSims :
        /\ envF = [init([direction |-> Num(1)]) EXCEPT !.sim = s]
        /\ envB = [init([direction |-> Num(-1)]) EXCEPT !.sim = s]
    /\ retF = None
    /\ retB = None
    /\ actFB = None

PairStep ==
    /\ Abs(envF.sim.qpos) <= MaxPos
    /\ \E action \in Actions :
        /\ envF' = step(envF, action).env
        /\ retF' = step(envF, action).ret
        /\ envB' = step(envB, action).env
        /\ retB' = step(envB, action).ret
        /\ actFB' = action
    /\ UNCHANGED <<envVars, harnessVars>>

----------------------------------------------------------------------------
(* The benchmark harness: test_benchmark_rl2 and run_garage *)

OutputKinds == {"TextOutput", "CsvOutput", "StdOutput", "TensorBoardOutput"}

\* trial_dir + '/garage' of the running trial
LogDir == [trial |-> trial + 1, seed |-> seeds[trial + 1]]

\* random.sample(range(...), n): n distinct seeds, in some order
SeedSamples(n) ==
    {s \in [1..n -> 0..MaxSeed] : \A i, j \in 1..n : i # j => s[i] # s[j]}

\* the statements of run_garage and of the trial loop that can raise
Fallible ==
    {"reset", "set_seed", "build", "add_text", "add_csv", "add_std", "add_tb",
     "setup", "train", "params", "close", "plot"}

HarnessIdle ==
    /\ pc = "idle"
    /\ outputs = << >>
    /\ trial = 0
    /\ n_trials = 0
    /\ seeds = << >>
    /\ csvs = << >>

HarnessInit ==
    /\ pc = "trial"
    /\ outputs = << >>
    /\ trial = 0
    /\ n_trials \in 1..MaxTrials
    /\ seeds \in SeedSamples(n_trials)
    /\ csvs = << >>

Goto(from, to) ==
    /\ pc = from
    /\ pc' = to
    /\ UNCHANGED <<trial, n_trials, seeds, csvs>>
    /\ UNCHANGED <<envVars, pairVars>>

add_output(kind) == outputs' = Append(outputs, [kind |-> kind, dir |-> LogDir])

TrialBegin ==
    /\ trial < n_trials
    /\ Goto("trial", "reset")
    /\ UNCHANGED outputs

EnvReset == Goto("reset", "set_seed") /\ UNCHANGED outputs

SetSeed == Goto("set_seed", "build") /\ UNCHANGED outputs

BuildAlgo == Goto("build", "add_text") /\ UNCHANGED outputs

AddTextOutput == Goto("add_text", "add_csv") /\ add_output("TextOutput")

AddCsvOutput == Goto("add_csv", "add_std") /\ add_output("CsvOutput")

AddStdOutput == Goto("add_std", "add_tb") /\ add_output("StdOutput")

AddTensorBoardOutput == Goto("add_tb", "setup") /\ add_output("TensorBoardOutput")

RunnerSetup == Goto("setup", "train") /\ UNCHANGED outputs

Train == Goto("train", "remove_all") /\ UNCHANGED outputs

RemoveAllSkipped == Goto("remove_all", "return") /\ UNCHANGED outputs

RemoveAll == Goto("remove_all", "return") /\ outputs' = << >>

ReturnCsv ==
    /\ pc = "return"
    /\ csvs' = Append(csvs, [file |-> "progress.csv", dir |-> LogDir])
    /\ trial' = trial + 1
    /\ pc' = "trial"
    /\ UNCHANGED <<outputs, n_trials, seeds>>
    /\ UNCHANGED <<envVars, pairVars>>

WriteParameters ==
    /\ trial = n_trials
    /\ Goto("trial", "params")
    /\ UNCHANGED outputs

DumpParameters == Goto("params", "close") /\ UNCHANGED outputs

EnvClose == Goto("close", "plot") /\ UNCHANGED outputs

Plot == Goto("plot", "done") /\ UNCHANGED outputs

\* an exception leaves run_garage and the test uncaught
Raise ==
    /\ pc \in Fallible
    /\ pc' = "failed"
    /\ UNCHANGED <<outputs, trial, n_trials, seeds, csvs>>
    /\ UNCHANGED <<envVars, pairVars>>

----------------------------------------------------------------------------
(* Specifications *)

Init == EnvInit /\ PairIdle /\ HarnessIdle

Next == Step \/ SampleTasks \/ SetTask

Spec == Init /\ [][Next]_vars

InitPair == EnvIdle /\ PairInit /\ HarnessIdle

NextPair == PairStep

SpecPair == InitPair /\ [][NextPair]_vars

InitHarness == EnvIdle /\ PairIdle /\ HarnessInit

NextHarness ==
    \/ TrialBegin \/ EnvReset \/ SetSeed \/ BuildAlgo
    \/ AddTextOutput \/ AddCsvOutput \/ AddStdOutput \/ AddTensorBoardOutput
    \/ RunnerSetup \/ Train \/ RemoveAll \/ ReturnCsv
    \/ WriteParameters \/ DumpParameters \/ EnvClose \/ Plot
    \/ Raise

SpecHarness == InitHarness /\ [][NextHarness]_vars

----------------------------------------------------------------------------
(* Properties *)

\* what the last step measured: (x position after - x position before) / dt
MeasuredVel == ((env.sim.qpos - pre.sim.qpos) * Q) \div dt

\* 0.05 * sum(action_i^2) of the last step's action
ExpectedCost ==
    (5 * SumSeq([i \in DOMAIN arg |-> (arg[i] * arg[i]) \div Q])) \div Q

\* C1 as stated: in every reachable state, whatever tasks were passed to the
\* constructor and to set_task, the active direction is -1.0 or 1.0.
C1_AnyTaskKeepsDirectionValid == env._goal_dir \in ValidDirs

\* C1 as amended: as long as every task passed to the constructor and to
\* set_task had direction -1 or 1, the active direction is -1.0 or 1.0 in
\* every reachable state, after any sequence of set_task, sample_tasks, step.
C1_ValidTasksKeepDirectionValid ==
    hist.inputs_ok => env._goal_dir \in ValidDirs

C1_Witness ==
    /\ hist.inputs_ok
    /\ op = "step"
    /\ hist.steps = 1
    /\ hist.task # None
    /\ env.np_random > 0
    /\ env._goal_dir = Num(-1)

\* C2: sample_tasks(num_tasks) returns exactly num_tasks task mappings, in
\* order, each with the single key 'direction' whose value is -1 or +1.
C2_SampleTasksShape ==
    op = "sample_tasks" =>
        /\ DOMAIN ret = 1..arg
        /\ \A i \in DOMAIN ret :
            /\ DOMAIN ret[i] = {"direction"}
            /\ ret[i].direction \in {Num(-1), Num(1)}

C2_Witness ==
    /\ op = "sample_tasks"
    /\ arg = 2
    /\ ret[1].direction = Num(1)
    /\ ret[2].direction = Num(-1)

\* C3: every call to step returns done = False, whatever the action, the
\* active direction and the calls made before.
C3_StepNeverDone == op = "step" => ret.done = FALSE

C3_Witness ==
    /\ op = "step"
    /\ hist.steps = 2
    /\ Abs(env.sim.qpos) > MaxPos
    /\ arg # ZeroAction

\* C4: two instances started from the same simulator state and given the
\* same actions, one with direction 1.0 and one with -1.0, keep equal
\* simulator states; at every step reward_forward of one is the negative of
\* the other's and reward_ctrl is the same in both.
C4_MirroredRuns ==
    /\ envF._goal_dir = Num(1)
    /\ envB._goal_dir = Num(-1)
    /\ envF.sim = envB.sim
    /\ actFB # None =>
        /\ retF.infos.reward_forward = -retB.infos.reward_forward
        /\ retF.infos.reward_ctrl = retB.infos.reward_ctrl

C4_Witness ==
    /\ actFB # None
    /\ retF.infos.reward_forward > 0
    /\ retB.infos.reward_forward < 0
    /\ retF.infos.reward_ctrl < 0
    /\ envF.sim \notin StartSims

\* C5: step returns reward = direction * forward_velocity - 0.05 *
\* sum(action_i^2), with forward_velocity = (x after - x before) / dt and the
\* direction active when step was called; info carries reward_forward =
\* direction * forward_velocity and task_dir = that direction, and reward =
\* reward_forward + reward_ctrl.  action = [1,0,0,0,0,0], direction = 1.0 and
\* forward_velocity = 2.0 give reward_forward = 2.0 and reward = 1.95.
C5_StepReward ==
    op = "step" =>
        /\ ret.reward = (pre._goal_dir * MeasuredVel) \div Q - ExpectedCost
        /\ ret.infos.reward_forward = (pre._goal_dir * MeasuredVel) \div Q
        /\ ret.infos.task_dir = pre._goal_dir
        /\ ret.reward = ret.infos.reward_forward + ret.infos.reward_ctrl
        /\ (arg = UnitAction /\ pre._goal_dir = Num(1) /\ MeasuredVel = Num(2)) =>
            /\ ret.infos.reward_forward = Num(2)
            /\ ret.reward = Num(195) \div 100

C5_Witness ==
    /\ op = "step"
    /\ arg = UnitAction
    /\ pre._goal_dir = Num(1)
    /\ MeasuredVel = Num(2)
    /\ ret.reward = Num(195) \div 100

C8_SetTaskLastWriteWins ==
    /\ \A t1, t2 \in Tasks :
        set_task(set_task(env, t1), t2) = set_task(env, t2)
    /\ \A t \in Tasks :
        set_task(set_task(env, t), t) = set_task(env, t)
    /\ (op = "set_task" /\ hist.sets = 2) =>
        env = [pre EXCEPT !._goal_dir = arg.direction]
    /\ (op = "init" /\ arg = None) =>
        LET back == set_task(set_task(env, [direction |-> Num(-1)]),
                             [direction |-> Num(1)])
        IN  /\ back = env
            /\ \A a \in Actions : step(back, a) = step(env, a)

C8_Witness ==
    /\ op = "set_task"
    /\ hist.sets = 2
    /\ pre._goal_dir = Num(-1)
    /\ env._goal_dir = Num(1)
    /\ env.sim # InitSim

\* C9: in run_garage the text, CSV, stdout and TensorBoard outputs are all
\* registered when runner.train starts, and once run_garage has returned no
\* output is registered: none when the harness begins the next trial, writes
\* the parameters, closes the environment or plots.
C9_LoggerSetupAndTeardown ==
    /\ pc = "train" =>
        \A k \in OutputKinds :
            \E i \in DOMAIN outputs : outputs[i] = [kind |-> k, dir |-> LogDir]
    /\ pc \in {"trial", "reset", "params", "close", "plot", "done"} =>
        outputs = << >>

C9_Witness ==
    /\ pc = "reset"
    /\ trial = 1
    /\ n_trials = 2
    /\ Len(csvs) = 1
    /\ outputs = << >>

\* C10: the active direction changes only through set_task: an environment
\* constructed with task=None has direction 1.0, and every step and every
\* sample_tasks call leaves the direction as it was; sample_tasks returns new
\* tasks and advances the random source without applying any of them.
C10_OnlySetTaskChangesDirection ==
    /\ (op = "init" /\ arg = None) => env._goal_dir = Num(1)
    /\ op \in {"step", "sample_tasks"} => env._goal_dir = pre._goal_dir
    /\ op = "sample_tasks" =>
        /\ env.np_random = pre.np_random + arg
        /\ env.sim = pre.sim

C10_Witness ==
    /\ op = "sample_tasks"
    /\ arg = 1
    /\ ret[1].direction = Num(-1)
    /\ env._goal_dir = Num(1)
    /\ pre.np_random < env.np_random

====
